---- MODULE Spec2Model ----
(***************************************************************************)
(* The driver program PDDRIVE3D (EXAMPLE/pddrive3d.c, main): every MPI     *)
(* rank of the universe runs main(); the ranks meet only in collectives.   *)
(* A rank's position (pc) is the collective it is blocked in; an action is *)
(* the return from that collective followed by the local code up to and    *)
(* including the call of the next collective.  trace[r] lists, in order,   *)
(* the library and MPI calls rank r has made.                              *)
(***************************************************************************)
EXTENDS Integers, Sequences, FiniteSets, TLC

\* Bounds of the model.
MaxProcs == 4       \* largest universe (mpiexec -np)
MaxDim == 2         \* largest -r / -c argument
MaxDep == 3         \* largest -d argument

\* The -b argument: absent (0) or given.
BatchArgs == {0, 1}
\* The status pdgssvx3d returns: 0, or the index of a zero pivot.
InfoValues == {0, 1}

\* The -l, -p, -q and -i arguments: absent (-1), or a number.
OptionArgs == {-1, 0, 3}

\* A local of main() that has been declared but not assigned.
Uninit == -9
\* result_min[] starts at 1e10.
Big == 100

VARIABLES
    NP, nprow, npcol, npdep, batch,  \* size of MPI_COMM_WORLD and the arguments
    lookahead, colperm, rowperm, ir, \* the option arguments
    options,     \* main's options, as handed to pdgssvx3d
    pc,          \* pc[r]: where rank r is
    myrank,      \* main's myrank (assigned in batch mode only)
    color,       \* main's color (batch mode)
    usermap,     \* main's usermap, between SUPERLU_MALLOC and SUPERLU_FREE
    bcomm,       \* the ranks of the communicator the grid is built on
    grid,        \* main's grid: [iam, zscp (zscp.Iam), comm, comm2d (grid2d.comm)]
    iam,         \* main's iam
    info,        \* main's info
    utime,       \* stat.utime: <<FACT, SOLVE>>
    result_min, result_max,
    trace,       \* the calls made so far
    joined,      \* the collectives returned from so far, each with its communicator
    report       \* the batch timing reports printed so far

\* What the command line sets.
args == <<NP, nprow, npcol, npdep, batch, lookahead, colperm, rowperm, ir>>

vars == <<args, options, pc, myrank, color, usermap, bcomm,
          grid, iam, info, utime, result_min, result_max, trace, joined, report>>

World == 0 .. NP - 1
\* The ranks of the largest universe.
Procs == 0 .. MaxProcs - 1

SetMin(S) == CHOOSE x \in S : \A y \in S : x <= y
SetMax(S) == CHOOSE x \in S : \A y \in S : x >= y
Ops(r) == {trace[r][n] : n \in DOMAIN trace[r]}
\* The place of the first op in tr, or 0.
Pos(tr, op) == LET S == {n \in DOMAIN tr : tr[n] = op}
               IN  IF S = {} THEN 0 ELSE CHOOSE n \in S : \A m \in S : n <= m
Count(tr, op) == Cardinality({n \in DOMAIN tr : tr[n] = op})

-----------------------------------------------------------------------------
(* The decisions main() takes.                                              *)

\* A slip: the argument is read as a count, and one group is no batch.
InBatchCount(b) == b > 1

\* if ( batch )
InBatch(b) == b # 0

\* nprow*npcol*npdep
GridSize(r, c, d) == r * c * d

\* A slip: the remainder instead of the quotient.
ColorRemainder(rank, r, c, d) == rank % GridSize(r, c, d)

\* int color = myrank/(nprow*npcol*npdep);
Color(rank, r, c, d) == rank \div GridSize(r, c, d)

\* A slip: the column stride nprow is forgotten.
UsermapIndexNoStride(i, j, k, r, c) == i + j + k * r * c

\* usermap[i + j*nprow + k*nprow*npcol]
UsermapIndex(i, j, k, r, c) == i + j * r + k * r * c

\* p = 0; for k, for i, for j: usermap[...] = p++;
RECURSIVE LoopJ(_, _, _, _, _, _)
LoopJ(st, k, i, j, r, c) ==
    IF j < c
    THEN LoopJ([um |-> [st.um EXCEPT ![UsermapIndex(i, j, k, r, c)] = st.p],
                p |-> st.p + 1], k, i, j + 1, r, c)
    ELSE st
RECURSIVE LoopI(_, _, _, _, _)
LoopI(st, k, i, r, c) ==
    IF i < r THEN LoopI(LoopJ(st, k, i, 0, r, c), k, i + 1, r, c) ELSE st
RECURSIVE LoopK(_, _, _, _, _)
LoopK(st, k, r, c, d) ==
    IF k < d THEN LoopK(LoopI(st, k, 0, r, c), k + 1, r, c, d) ELSE st
FillUsermap(r, c, d) ==
    LoopK([um |-> [x \in 0 .. GridSize(r, c, d) - 1 |-> Uninit], p |-> 0], 0, r, c, d).um

\* A slip: the inactive rank is not sent to out.
BailOutNever(i) == FALSE

\* if (iam == -1) goto out;
BailOut(i) == i = -1

\* if ( info )
SomethingWrong(i) == i # 0

\* A slip: the global rank decides who prints the error.
PrintsErrorGlobal(i, rank) == rank = 0

\* if ( iam==0 ) printf("ERROR: INFO = ...")
PrintsError(i, rank) == i = 0

\* A slip: the grid is mapped onto the universe.
GridBaseWorld(world, sub) == world

\* superlu_gridmap3d(SubComm, ...)
GridBase(world, sub) == sub

\* A slip: the accuracy check is given the universe.
CheckCommWorld(g, world) == world

\* pdinf_norm_error (..., grid.comm)
CheckComm(g, world) == g.comm

\* A slip: the global rank decides the destruction path.
BaseLayerGlobal(g, rank) == rank = 0

\* if ( grid.zscp.Iam == 0 )
BaseLayer(g, rank) == g.zscp = 0

\* A slip: rank 0 of every grid prints the report.
PrintsReportGrid(rank, i) == i = 0

\* if (!myrank)
PrintsReport(rank, i) == rank = 0

\* A slip: the reductions run on the group's communicator.
AllreduceCommSub(world, sub) == sub

\* the communicator of the two MPI_Allreduce calls: MPI_COMM_WORLD
AllreduceComm(world, sub) == world

\* lines 394-396: options.Algo3d = YES; options.DiagInv = YES;
\* options.ReplaceTinyPivot = YES;
SetOption(o, k, v) == [x \in DOMAIN o \cup {k} |-> IF x = k THEN v ELSE o[x]]
DriverOptions(o) ==
    SetOption(SetOption(SetOption(o, "Algo3d", "YES"), "DiagInv", "YES"),
              "ReplaceTinyPivot", "YES")

\* if (rowperm != -1) options.RowPerm = rowperm;
Override(o, k, arg) == IF arg # -1 THEN SetOption(o, k, arg) ELSE o

\* double -> float: round to the nearest representable value, ties to even.
\* The doubles are the integers, the floats the even integers.
ToFloat(t) ==
    LET q == t \div 2
    IN  IF t % 2 = 0 THEN t ELSE IF q % 2 = 0 THEN 2 * q ELSE 2 * (q + 1)

\* A slip: the indices of result_max are exchanged.
BatchResultsSwapped(ut) ==
    [min |-> <<ToFloat(ut[1]), ToFloat(ut[2])>>,
     max |-> <<ToFloat(ut[2]), ToFloat(ut[1])>>]

\* result_min[0] = stat.utime[FACT]; result_min[1] = stat.utime[SOLVE]; ...
BatchResults(ut) ==
    [min |-> <<ToFloat(ut[1]), ToFloat(ut[2])>>,
     max |-> <<ToFloat(ut[1]), ToFloat(ut[2])>>]

\* MPI_Allreduce(MPI_IN_PLACE, result_min, 2, MPI_FLOAT, MPI_MIN, ...)
AllreduceMin(vals) ==
    <<SetMin({v[1] : v \in vals}), SetMin({v[2] : v \in vals})>>
\* MPI_Allreduce(MPI_IN_PLACE, result_max, 2, MPI_FLOAT, MPI_MAX, ...)
AllreduceMax(vals) ==
    <<SetMax({v[1] : v \in vals}), SetMax({v[2] : v \in vals})>>

-----------------------------------------------------------------------------
(* The grid library (superlu_grid3d.c), from its contract.                  *)

\* npdep must be a power of two
IsPow2(d) == \E e \in 0 .. d : 2 ^ e = d

\* The grid dimensions are valid for a communicator of the given size.
ValidGrid(r, c, d, size) ==
    /\ r >= 1 /\ c >= 1 /\ d >= 1
    /\ IsPow2(d)
    /\ GridSize(r, c, d) <= size

\* set_default_options_dist: the documented defaults.
DefaultOptions ==
    [Fact |-> "DOFACT", Equil |-> "YES", ParSymbFact |-> "NO",
     ColPerm |-> "METIS_AT_PLUS_A", RowPerm |-> "LargeDiag_MC64",
     ReplaceTinyPivot |-> "NO", IterRefine |-> "SLU_DOUBLE", Trans |-> "NOTRANS",
     SolveInitialized |-> "NO", RefineInitialized |-> "NO", PrintStat |-> "YES",
     num_lookaheads |-> 10, lookahead_etree |-> "NO", SymPattern |-> "NO",
     DiagInv |-> "NO"]

\* lines 393-408: the options record handed to pdgssvx3d
Options(rp, cp, la, refine) ==
    Override(Override(Override(Override(DriverOptions(DefaultOptions),
        "RowPerm", rp), "ColPerm", cp), "num_lookaheads", la), "IterRefine", refine)

\* The rank of a process in a communicator (ranks are ordered by key myrank).
SubRank(q, comm) == Cardinality({x \in comm : x < q})

\* superlu_gridinit3d's own map: the first nprow*npcol*npdep ranks, in order.
DefaultMap(r, c, d) == [x \in 0 .. GridSize(r, c, d) - 1 |-> x]

\* superlu_gridmap3d on the communicator comm: the process of rank um[x] gets
\* the coordinate x = i + j*nprow + k*nprow*npcol, and a process um does not
\* name is inactive.  grid.comm joins the active processes, grid.grid2d.comm
\* those of one layer.
Coordinate(s, um) ==
    IF \E x \in DOMAIN um : um[x] = s THEN CHOOSE x \in DOMAIN um : um[x] = s ELSE -1
GridMap3d(q, comm, r, c, um) ==
    LET x == Coordinate(SubRank(q, comm), um)
        members == {y \in comm : Coordinate(SubRank(y, comm), um) # -1}
    IN  IF x = -1
        THEN [iam |-> -1, zscp |-> -1, comm |-> {}, comm2d |-> {}]
        ELSE [iam |-> x, zscp |-> x \div (r * c), comm |-> members,
              comm2d |-> {y \in members :
                             Coordinate(SubRank(y, comm), um) \div (r * c) = x \div (r * c)}]

\* the map the grid is built from: main's usermap, or superlu_gridinit3d's
MapOf(q) == IF InBatch(batch) THEN usermap[q] ELSE DefaultMap(nprow, npcol, npdep)

GridCall == IF InBatch(batch) THEN "superlu_gridmap3d" ELSE "superlu_gridinit3d"

\* A collective returns once every member of its communicator has entered it.
AllEntered(comm, op) == \A q \in comm : op \in Ops(q)

\* Rank r returns from the collective op on the communicator comm.
Collective(r, op, comm) ==
    /\ AllEntered(comm, op)
    /\ joined' = [joined EXCEPT ![r] = @ \cup {<<op, comm>>}]

-----------------------------------------------------------------------------
(* The straight-line sections of main().                                    *)

\* A slip: the statistics are not initialised.
SetupCallsNoStat ==
    <<"doubleMalloc_dist", "set_default_options_dist", "dScalePermstructInit",
      "dLUstructInit", "pdgssvx3d">>

\* lines 369-439: berr, the options, the structures, the statistics, the solver
SetupCalls ==
    <<"doubleMalloc_dist", "set_default_options_dist", "dScalePermstructInit",
      "dLUstructInit", "PStatInit", "pdgssvx3d">>

\* lines 460-461
BasePath == <<"dDestroy_LU", "dSolveFinalize">>
\* lines 463-464
ReplicatedPath == <<"dDeAllocLlu_3d", "dDeAllocGlu_3d">>
\* lines 467-475
CommonFrees ==
    <<"dDestroy_A3d_gathered_on_2d", "Destroy_CompRowLoc_Matrix_dist",
      "SUPERLU_FREE_b", "SUPERLU_FREE_xtrue", "SUPERLU_FREE_berr",
      "dScalePermstructFree", "dLUstructFree", "fclose">>

\* out: if ( batch ) { ...; MPI_Allreduce(...MPI_MIN...)
AtOut(tr) ==
    IF InBatch(batch)
    THEN [pc |-> "in_amin", tr |-> tr \o <<"MPI_Allreduce_MIN">>]
    ELSE [pc |-> "at_exit", tr |-> tr]

\* lines 456-475, up to the next collective
Dealloc(g, rank, tr) ==
    IF BaseLayer(g, rank)
    THEN [pc |-> "in_stat", tr |-> tr \o <<"PStatPrint">>]
    ELSE AtOut(tr \o ReplicatedPath \o CommonFrees)

\* A slip: a nonzero status jumps to out, past the deallocation.
AfterSolveSkipsCleanup(i, me, g, rank, tr) ==
    IF SomethingWrong(i)
    THEN AtOut(IF PrintsError(me, rank) THEN tr \o <<"print_error">> ELSE tr)
    ELSE [pc |-> "in_check", tr |-> tr \o <<"pdinf_norm_error">>]

\* A slip: a nonzero status leaves main() at once.
AfterSolveExitsOnError(i, me, g, rank, tr) ==
    IF SomethingWrong(i)
    THEN [pc |-> "at_exit", tr |-> IF PrintsError(me, rank) THEN tr \o <<"print_error">> ELSE tr]
    ELSE [pc |-> "in_check", tr |-> tr \o <<"pdinf_norm_error">>]

\* lines 441-450, up to the next collective
AfterSolve(i, me, g, rank, tr) ==
    IF SomethingWrong(i)
    THEN Dealloc(g, rank, IF PrintsError(me, rank) THEN tr \o <<"print_error">> ELSE tr)
    ELSE [pc |-> "in_check", tr |-> tr \o <<"pdinf_norm_error">>]

\* A slip: the grid is released under the guard of PStatFree.
ExitCallsActiveOnly(i) ==
    IF i # -1
    THEN <<"superlu_gridexit3d", "PStatFree", "MPI_Finalize">>
    ELSE <<"MPI_Finalize">>

\* lines 497-503: superlu_gridexit3d; if ( iam != -1 ) PStatFree; MPI_Finalize
ExitCalls(i) ==
    IF i # -1
    THEN <<"superlu_gridexit3d", "PStatFree", "MPI_Finalize">>
    ELSE <<"superlu_gridexit3d", "MPI_Finalize">>

\* The times pdgssvx3d records in stat.utime, as <<FACT, SOLVE>>: a failed
\* factorization never enters the solve phase.
TimePairs(i) == IF i = 0 THEN {<<1, 2>>, <<3, 1>>} ELSE {<<1, 0>>}
\* What a read of stat.utime yields: its value, or anything when PStatInit
\* has not run.
StatRead(ut) == IF ut[1] = Uninit THEN TimePairs(0) \cup TimePairs(1) ELSE {ut}

\* The rank moves to position nxt.pc with calls nxt.tr; on entering the first
\* reduction it has stored v, read from stat.utime, in result_min/result_max.
Goto(r, nxt, v) ==
    /\ pc' = [pc EXCEPT ![r] = nxt.pc]
    /\ trace' = [trace EXCEPT ![r] = nxt.tr]
    /\ result_min' = IF nxt.pc = "in_amin"
                     THEN [result_min EXCEPT ![r] = BatchResults(v).min]
                     ELSE result_min
    /\ result_max' = IF nxt.pc = "in_amin"
                     THEN [result_max EXCEPT ![r] = BatchResults(v).max]
                     ELSE result_max

-----------------------------------------------------------------------------
Init ==
    /\ \/ \* the universe and the grid arguments vary, the option arguments
          \* are absent (lines 138-141)
          /\ NP \in 1 .. MaxProcs
          \* atoi of an argument: a positive number, or 0
          /\ (nprow \in 1 .. MaxDim \/ nprow = 0)
          /\ (npcol \in 1 .. MaxDim \/ npcol = 0)
          /\ (npdep \in 1 .. MaxDep \/ npdep = 0)
          /\ batch \in BatchArgs
          /\ lookahead = -1 /\ colperm = -1 /\ rowperm = -1 /\ ir = -1
       \/ \* one process, the grid arguments absent (lines 134-136): the
          \* option arguments and the value of -b vary
          /\ NP = 1 /\ nprow = 1 /\ npcol = 1 /\ npdep = 1
          /\ batch \in BatchArgs \cup {2}
          /\ lookahead \in OptionArgs /\ colperm \in OptionArgs
          /\ rowperm \in OptionArgs /\ ir \in OptionArgs
    /\ options = [r \in World |-> <<>>]
    /\ pc = [r \in World |-> "start"]
    /\ myrank = [r \in World |-> Uninit]
    /\ color = [r \in World |-> Uninit]
    /\ usermap = [r \in World |-> <<>>]
    /\ bcomm = [r \in World |-> {}]
    /\ grid = [r \in World |-> [iam |-> Uninit, zscp |-> Uninit, comm |-> {}, comm2d |-> {}]]
    /\ iam = [r \in World |-> Uninit]
    /\ info = [r \in World |-> Uninit]
    /\ utime = [r \in World |-> <<Uninit, Uninit>>]
    /\ result_min = [r \in World |-> <<Big, Big>>]
    /\ result_max = [r \in World |-> <<0, 0>>]
    /\ trace = [r \in World |-> <<>>]
    /\ joined = [r \in World |-> {}]
    /\ report = <<>>

\* lines 208-216 (batch) or 254 (single grid)
Start(r) ==
    /\ r \in World
    /\ pc[r] = "start"
    /\ IF InBatch(batch)
       THEN /\ myrank' = [myrank EXCEPT ![r] = r]
            /\ IF GridSize(nprow, npcol, npdep) = 0
               THEN \* division by zero: the process traps, or the quotient is 0
                    \E trap \in BOOLEAN :
                       /\ pc' = [pc EXCEPT ![r] = IF trap THEN "crashed" ELSE "in_split"]
                       /\ color' = IF trap THEN color ELSE [color EXCEPT ![r] = 0]
                       /\ trace' = [trace EXCEPT ![r] =
                             IF trap THEN <<"fopen", "SUPERLU_MALLOC_usermap">>
                             ELSE <<"fopen", "SUPERLU_MALLOC_usermap", "MPI_Comm_split">>]
               ELSE /\ pc' = [pc EXCEPT ![r] = "in_split"]
                    /\ color' = [color EXCEPT ![r] = Color(r, nprow, npcol, npdep)]
                    /\ trace' = [trace EXCEPT ![r] =
                          <<"fopen", "SUPERLU_MALLOC_usermap", "MPI_Comm_split">>]
            /\ UNCHANGED bcomm
       ELSE /\ bcomm' = [bcomm EXCEPT ![r] = World]
            /\ trace' = [trace EXCEPT ![r] = <<"fopen", "superlu_gridinit3d">>]
            /\ pc' = [pc EXCEPT ![r] =
                  IF ValidGrid(nprow, npcol, npdep, NP) THEN "in_grid" ELSE "aborted"]
            /\ UNCHANGED <<myrank, color>>
    /\ UNCHANGED <<args, options, usermap, grid, iam, info, utime,
                   result_min, result_max, joined, report>>

\* MPI_Comm_split returns; lines 217-221
SplitReturn(r) ==
    /\ r \in World
    /\ pc[r] = "in_split"
    /\ Collective(r, "MPI_Comm_split", World)
    /\ LET sub == {q \in World : color[q] = color[r]}
       IN  /\ bcomm' = [bcomm EXCEPT ![r] = GridBase(World, sub)]
           /\ usermap' = [usermap EXCEPT ![r] = FillUsermap(nprow, npcol, npdep)]
           /\ trace' = [trace EXCEPT ![r] = @ \o <<"superlu_gridmap3d">>]
           /\ pc' = [pc EXCEPT ![r] =
                 IF ValidGrid(nprow, npcol, npdep, Cardinality(GridBase(World, sub)))
                 THEN "in_grid" ELSE "aborted"]
    /\ UNCHANGED <<args, options, myrank, color, grid, iam, info,
                   utime, result_min, result_max, report>>

\* the grid is built; lines 222-332
GridReturn(r) ==
    /\ r \in World
    /\ pc[r] = "in_grid"
    /\ Collective(r, GridCall, bcomm[r])
    /\ LET g == GridMap3d(r, bcomm[r], nprow, npcol, MapOf(r))
           tr == IF InBatch(batch) THEN trace[r] \o <<"SUPERLU_FREE_usermap">> ELSE trace[r]
       IN  /\ grid' = [grid EXCEPT ![r] = g]
           /\ iam' = [iam EXCEPT ![r] = g.iam]
           /\ usermap' = [usermap EXCEPT ![r] = <<>>]
           /\ \E v \in IF InBatch(batch) THEN StatRead(utime[r]) ELSE {utime[r]} :
                 Goto(r, IF BailOut(g.iam) THEN AtOut(tr)
                         ELSE [pc |-> "in_create",
                               tr |-> tr \o <<"dcreate_matrix_postfix3d">>], v)
    /\ UNCHANGED <<args, options, myrank, color, bcomm, info, utime,
                   report>>

\* dcreate_matrix_postfix3d returns; lines 369-439
CreateReturn(r) ==
    /\ r \in World
    /\ pc[r] = "in_create"
    /\ Collective(r, "dcreate_matrix_postfix3d", grid[r].comm)
    /\ utime' = [utime EXCEPT ![r] = <<0, 0>>]
    /\ pc' = [pc EXCEPT ![r] = "in_solve"]
    /\ trace' = [trace EXCEPT ![r] = @ \o SetupCalls]
    /\ options' = [options EXCEPT ![r] = Options(rowperm, colperm, lookahead, ir)]
    /\ UNCHANGED <<args, myrank, color, usermap, bcomm, grid,
                   iam, info, result_min, result_max, report>>

\* pdgssvx3d returns its status and has recorded its times; lines 441-475
SolveReturn(r) ==
    /\ r \in World
    /\ pc[r] = "in_solve"
    /\ Collective(r, "pdgssvx3d", grid[r].comm)
    /\ \E i \in IF \E q \in grid[r].comm : info[q] # Uninit
                THEN {info[q] : q \in {x \in grid[r].comm : info[x] # Uninit}}
                ELSE InfoValues :
       \E ut \in TimePairs(i) :
          /\ info' = [info EXCEPT ![r] = i]
          /\ utime' = [utime EXCEPT ![r] = ut]
          /\ Goto(r, AfterSolve(i, iam[r], grid[r], myrank[r], trace[r]), ut)
    /\ UNCHANGED <<args, options, myrank, color, usermap, bcomm, grid,
                   iam, report>>

\* pdinf_norm_error returns; lines 456-475
CheckReturn(r) ==
    /\ r \in World
    /\ pc[r] = "in_check"
    /\ Collective(r, "pdinf_norm_error", CheckComm(grid[r], World))
    /\ Goto(r, Dealloc(grid[r], myrank[r], trace[r]), utime[r])
    /\ UNCHANGED <<args, options, myrank, color, usermap, bcomm, grid,
                   iam, info, utime, report>>

\* PStatPrint returns; lines 460-475
StatReturn(r) ==
    /\ r \in World
    /\ pc[r] = "in_stat"
    /\ Collective(r, "PStatPrint", grid[r].comm2d)
    /\ Goto(r, AtOut(trace[r] \o BasePath \o CommonFrees), utime[r])
    /\ UNCHANGED <<args, options, myrank, color, usermap, bcomm, grid,
                   iam, info, utime, report>>

\* the MPI_MIN reduction returns; line 487
AminReturn(r) ==
    /\ r \in World
    /\ pc[r] = "in_amin"
    /\ Collective(r, "MPI_Allreduce_MIN", AllreduceComm(World, bcomm[r]))
    /\ result_min' = [result_min EXCEPT ![r] =
          AllreduceMin({result_min[q] : q \in AllreduceComm(World, bcomm[r])})]
    /\ pc' = [pc EXCEPT ![r] = "in_amax"]
    /\ trace' = [trace EXCEPT ![r] = @ \o <<"MPI_Allreduce_MAX">>]
    /\ UNCHANGED <<args, options, myrank, color, usermap, bcomm, grid,
                   iam, info, utime, result_max, report>>

\* the MPI_MAX reduction returns; lines 488-495
AmaxReturn(r) ==
    /\ r \in World
    /\ pc[r] = "in_amax"
    /\ Collective(r, "MPI_Allreduce_MAX", AllreduceComm(World, bcomm[r]))
    /\ LET mx == AllreduceMax({result_max[q] : q \in AllreduceComm(World, bcomm[r])})
       IN  /\ result_max' = [result_max EXCEPT ![r] = mx]
           /\ IF PrintsReport(myrank[r], iam[r])
              THEN /\ report' = Append(report, [rank |-> r, min |-> result_min[r], max |-> mx])
                   /\ trace' = [trace EXCEPT ![r] = @ \o <<"print_report">>]
              ELSE UNCHANGED <<report, trace>>
    /\ pc' = [pc EXCEPT ![r] = "at_exit"]
    /\ UNCHANGED <<args, options, myrank, color, usermap, bcomm, grid,
                   iam, info, utime, result_min>>

\* lines 497-503
Exit(r) ==
    /\ r \in World
    /\ pc[r] = "at_exit"
    /\ trace' = [trace EXCEPT ![r] = @ \o ExitCalls(iam[r])]
    /\ pc' = [pc EXCEPT ![r] = "done"]
    /\ UNCHANGED <<args, options, myrank, color, usermap, bcomm, grid,
                   iam, info, utime, result_min, result_max, joined, report>>

Next ==
    \E r \in Procs :
       \/ Start(r)
       \/ SplitReturn(r)
       \/ GridReturn(r)
       \/ CreateReturn(r)
       \/ SolveReturn(r)
       \/ CheckReturn(r)
       \/ StatReturn(r)
       \/ AminReturn(r)
       \/ AmaxReturn(r)
       \/ Exit(r)

\* A step of rank r.
Step(r) ==
    \/ Start(r) \/ SplitReturn(r) \/ GridReturn(r) \/ CreateReturn(r) \/ SolveReturn(r)
    \/ CheckReturn(r) \/ StatReturn(r) \/ AminReturn(r) \/ AmaxReturn(r) \/ Exit(r)

Spec == Init /\ [][Next]_vars

\* The launches with a -b argument other than 0.
BatchInit == Init /\ batch # 0
BatchSpec == BatchInit /\ [][Next]_vars

\* Some rank that can run does run: a process blocked in no collective proceeds.
FairSpec == Spec /\ WF_vars(Next)

-----------------------------------------------------------------------------
(* The claims.                                                              *)

G == GridSize(nprow, npcol, npdep)
Active(r) == grid[r].iam # Uninit /\ grid[r].iam # -1
\* The rank has left the deallocation section (it is at out: or beyond).
PastOut(r) == pc[r] \in {"in_amin", "in_amax", "at_exit", "done"}

\* C1: a rank whose grid.iam is -1 after grid construction makes none of the
\* calls that communicate on the grid (matrix creation, pdgssvx3d,
\* pdinf_norm_error, PStatPrint, the factor deallocation routines): after the
\* grid construction it makes only the calls of the exit section.
C1_InactiveSkipsGrid ==
    \A r \in World :
       grid[r].iam = -1 =>
          /\ Ops(r) \cap {"dcreate_matrix_postfix3d", "pdgssvx3d", "pdinf_norm_error",
                          "PStatPrint", "dDestroy_LU", "dSolveFinalize",
                          "dDeAllocLlu_3d", "dDeAllocGlu_3d",
                          "dDestroy_A3d_gathered_on_2d"} = {}
          /\ \A n \in DOMAIN trace[r] :
                n > Pos(trace[r], GridCall) =>
                   trace[r][n] \in {"SUPERLU_FREE_usermap", "MPI_Allreduce_MIN",
                                    "MPI_Allreduce_MAX", "print_report",
                                    "superlu_gridexit3d", "MPI_Finalize"}
C1_Witness ==
    \E r \in World : grid[r].iam = -1 /\ pc[r] = "done"
                     /\ \E q \in World : Active(q) /\ "pdgssvx3d" \in Ops(q)

\* C2: in batch mode (with nprow*npcol*npdep >= 1) every rank is in exactly
\* one group, whose id is its global rank divided by nprow*npcol*npdep: the
\* groups are disjoint, made of consecutive global ranks, and have exactly
\* nprow*npcol*npdep ranks each when that divides the universe size.
C2_GroupAssignment ==
    (InBatch(batch) /\ G >= 1) =>
       \A r \in World :
          bcomm[r] # {} =>
             /\ G * color[r] <= r /\ r < G * (color[r] + 1)
             /\ bcomm[r] = {q \in World : G * color[r] <= q /\ q < G * (color[r] + 1)}
             /\ \A q \in World :
                   bcomm[q] # {} => (bcomm[q] = bcomm[r] \/ bcomm[q] \cap bcomm[r] = {})
             /\ (NP % G = 0 => Cardinality(bcomm[r]) = G)
C2_Witness ==
    /\ InBatch(batch) /\ G = 2 /\ NP = 4
    /\ \A r \in World : bcomm[r] # {}
    /\ color[0] = 0 /\ color[3] = 1

\* C3: for nprow, npcol, npdep >= 1 the rank map of the batch path is a
\* bijection between the coordinates (i, j, k) and the ranks
\* 0 .. nprow*npcol*npdep - 1 of the group.
C3_UsermapBijection ==
    \A r \in World :
       usermap[r] # <<>> =>
          LET Coord == (0 .. nprow - 1) \X (0 .. npcol - 1) \X (0 .. npdep - 1)
              At(x) == usermap[r][x[1] + x[2] * nprow + x[3] * nprow * npcol]
          IN  /\ \A x \in Coord : At(x) \in 0 .. G - 1
              /\ \A x, y \in Coord : x # y => At(x) # At(y)
              /\ \A p \in 0 .. G - 1 : \E x \in Coord : At(x) = p
C3_Witness ==
    \E r \in World : usermap[r] # <<>> /\ nprow = 2 /\ npcol = 1 /\ npdep = 2

\* C4 as stated: the reported minimum and maximum bound every rank's recorded
\* factorization and solve time, and each is a time some rank recorded.
C4_ReportBoundsRecorded ==
    \A n \in DOMAIN report : \A ph \in {1, 2} :
       /\ \A r \in World : /\ report[n].min[ph] <= utime[r][ph]
                           /\ utime[r][ph] <= report[n].max[ph]
       /\ \E r \in World : report[n].min[ph] = utime[r][ph]
       /\ \E r \in World : report[n].max[ph] = utime[r][ph]

\* C4, amended: the reported minimum and maximum bound every rank's recorded
\* factorization and solve time as converted to single precision, and each
\* is the single-precision conversion of a time some rank recorded.
C4_ReportBoundsFloat ==
    \A n \in DOMAIN report : \A ph \in {1, 2} :
       LET f(t) == IF t % 2 = 0 THEN t
                   ELSE IF (t \div 2) % 2 = 0 THEN t - 1 ELSE t + 1
       IN  /\ \A r \in World : /\ report[n].min[ph] <= f(utime[r][ph])
                               /\ f(utime[r][ph]) <= report[n].max[ph]
           /\ \E r \in World : report[n].min[ph] = f(utime[r][ph])
           /\ \E r \in World : report[n].max[ph] = f(utime[r][ph])
C4_Witness ==
    /\ report # <<>>
    /\ \E r, q \in World : color[r] # color[q] /\ utime[r] # utime[q]

\* C5: in batch mode, when the timing report is printed every rank of every
\* group has returned from pdgssvx3d and has finished its deallocation.
C5_ReportAfterAllGroups ==
    report # <<>> =>
       \A r \in World :
          /\ info[r] # Uninit
          /\ {"pdgssvx3d", "dLUstructFree", "fclose"} \subseteq Ops(r)
C5_Witness ==
    /\ report # <<>>
    /\ \E r \in World : color[r] >= 1 /\ Cardinality(bcomm[r]) >= 2

\* C6: in batch mode the timing report is printed exactly once per run, by
\* global rank 0, whatever the number of groups and their statuses; in
\* non-batch mode it is never printed.
C6_ReportOnce ==
    /\ Len(report) <= 1
    /\ \A n \in DOMAIN report : report[n].rank = 0
    /\ \A r \in World :
          Count(trace[r], "print_report") =
             IF InBatch(batch) /\ r = 0 /\ pc[r] \in {"at_exit", "done"} THEN 1 ELSE 0
    /\ (InBatch(batch) /\ pc[0] \in {"at_exit", "done"}) => Len(report) = 1
    /\ ~InBatch(batch) => report = <<>>
C6_Witness ==
    /\ InBatch(batch) /\ Len(report) = 1
    /\ \A r \in World : pc[r] = "done"
    /\ \E r, q \in World : color[r] # color[q] /\ info[r] = 0 /\ info[q] # 0

\* The state part of C7: the error of a group is printed by the rank with
\* grid.iam = 0 of that group, and only by it, each rank printing only its own
\* grid's status; a rank whose status is 0 and that has finished has made the
\* accuracy check, the deallocation and both timing reductions.
C7_Independent ==
    \A r \in World :
       /\ "print_error" \in Ops(r) =>
             /\ info[r] # Uninit /\ info[r] # 0 /\ grid[r].iam = 0
             /\ Count(trace[r], "print_error") = 1
       /\ (info[r] # Uninit /\ info[r] # 0 /\ grid[r].iam = 0) => "print_error" \in Ops(r)
       /\ (InBatch(batch) /\ info[r] = 0 /\ pc[r] = "done") =>
             {"pdinf_norm_error", "dLUstructFree", "fclose", "MPI_Allreduce_MIN",
              "MPI_Allreduce_MAX", "MPI_Finalize"} \subseteq Ops(r)
\* Every group runs its solver and some group's solver has failed.
C7_GroupFailed ==
    /\ InBatch(batch)
    /\ \A r \in World : "pdgssvx3d" \in Ops(r)
    /\ \E r \in World : info[r] # Uninit /\ info[r] # 0
C7_AllEnded == \A r \in World : pc[r] = "done"

\* C7: a failure in one batch group does not abort the sibling groups and is
\* reported independently: when pdgssvx3d returns a nonzero status in a group,
\* the rank with grid.iam = 0 of that group, and no rank of another group,
\* prints the error, and every rank of every other group whose status is 0
\* still makes its accuracy check, its deallocation and the timing reductions
\* and reaches the end of the program: until every rank has ended some rank
\* can take a step, and a run has finitely many steps (each one extends a
\* trace by a call of main(), which has no loop around its calls).
C7_FailureIsolated ==
    /\ C7_Independent
    /\ C7_GroupFailed => (C7_AllEnded \/ ENABLED Next)
C7_Witness ==
    /\ C7_GroupFailed /\ C7_AllEnded
    /\ \E r, q \in World :
          /\ color[r] # color[q] /\ info[r] = 0 /\ info[q] # 0
          /\ "print_error" \in Ops(q) /\ q # 0

\* C8: a nonzero status from pdgssvx3d skips the accuracy check but neither
\* the statistics report nor the cleanup: every active rank that has left the
\* deallocation section has, for every status, run the factor deallocation of
\* its layer and released the gathered matrix, the matrix, the vectors,
\* ScalePermstruct and LUstruct, and has run PStatPrint if it is in layer 0;
\* it has run the accuracy check if and only if the status is 0.
C8_CleanupOnFailure ==
    \A r \in World :
       /\ (Active(r) /\ PastOut(r)) =>
             /\ {"dDestroy_A3d_gathered_on_2d", "Destroy_CompRowLoc_Matrix_dist",
                 "SUPERLU_FREE_b", "SUPERLU_FREE_xtrue", "SUPERLU_FREE_berr",
                 "dScalePermstructFree", "dLUstructFree"} \subseteq Ops(r)
             /\ \/ {"dDestroy_LU", "dSolveFinalize"} \subseteq Ops(r)
                \/ {"dDeAllocLlu_3d", "dDeAllocGlu_3d"} \subseteq Ops(r)
             /\ grid[r].zscp = 0 => "PStatPrint" \in Ops(r)
             /\ info[r] # Uninit
       /\ (Active(r) /\ info[r] # Uninit) =>
             ("pdinf_norm_error" \in Ops(r) <=> info[r] = 0)
C8_Witness ==
    \E r, q \in World :
       /\ Active(r) /\ Active(q) /\ pc[r] = "done" /\ pc[q] = "done"
       /\ info[r] # 0 /\ info[q] # 0
       /\ grid[r].zscp = 0 /\ grid[q].zscp = 1

\* C9: the factor structure is destroyed by exactly one of two paths, chosen
\* by grid.zscp.Iam and not by the global rank: an active rank of layer 0
\* runs dDestroy_LU then dSolveFinalize, an active rank of another layer
\* dDeAllocLlu_3d then dDeAllocGlu_3d, no rank both or neither, in every
\* group of a batch run too.
C9_RoleAwareDestruction ==
    \A r \in World :
       LET base == {"dDestroy_LU", "dSolveFinalize"}
           repl == {"dDeAllocLlu_3d", "dDeAllocGlu_3d"}
           tr == trace[r]
       IN  /\ (Ops(r) \cap (base \cup repl) # {}) => Active(r)
           /\ (Active(r) /\ grid[r].zscp = 0) => Ops(r) \cap repl = {}
           /\ (Active(r) /\ grid[r].zscp # 0) => Ops(r) \cap base = {}
           /\ (Active(r) /\ PastOut(r) /\ grid[r].zscp = 0) =>
                 /\ Count(tr, "dDestroy_LU") = 1 /\ Count(tr, "dSolveFinalize") = 1
                 /\ Pos(tr, "dDestroy_LU") < Pos(tr, "dSolveFinalize")
           /\ (Active(r) /\ PastOut(r) /\ grid[r].zscp # 0) =>
                 /\ Count(tr, "dDeAllocLlu_3d") = 1 /\ Count(tr, "dDeAllocGlu_3d") = 1
                 /\ Pos(tr, "dDeAllocLlu_3d") < Pos(tr, "dDeAllocGlu_3d")
C9_Witness ==
    /\ InBatch(batch)
    /\ \E r, q \in World :
          /\ color[r] = 1 /\ color[q] = 1 /\ pc[r] = "done" /\ pc[q] = "done"
          /\ grid[r].zscp = 0 /\ grid[q].zscp = 1

\* C10: a rank on which the grid dimensions are rejected (npdep not a power
\* of two, nprow*npcol*npdep larger than the communicator, a dimension <= 0)
\* has taken part in no collective operation, in the single-grid path and in
\* the batch path.
C10_FailFast ==
    \A r \in World :
       pc[r] = "aborted" => "MPI_Comm_split" \notin Ops(r)

\* C11: the options record handed to pdgssvx3d carries, for every option, the
\* supplied value when the option is overridden (row permutation, column
\* permutation, look-ahead depth, refinement mode) and its documented default
\* otherwise: equilibration on, tiny-pivot replacement off, look-ahead depth
\* 10, and so on.
C11_DefaultsUnlessOverridden ==
    \A r \in World :
       "pdgssvx3d" \in Ops(r) =>
          LET over == [RowPerm |-> rowperm, ColPerm |-> colperm,
                       num_lookaheads |-> lookahead, IterRefine |-> ir]
          IN  \A k \in DOMAIN DefaultOptions :
                 IF k \in DOMAIN over /\ over[k] # -1
                 THEN options[r][k] = over[k]
                 ELSE options[r][k] = DefaultOptions[k]

\* The operations that take the grid (or a communicator of it).
GridUses ==
    {"dcreate_matrix_postfix3d", "pdgssvx3d", "pdinf_norm_error", "PStatPrint",
     "dDestroy_LU", "dDeAllocLlu_3d", "dDestroy_A3d_gathered_on_2d"}

\* C12: on every rank the grid is constructed before the first operation
\* that takes the grid and destroyed (superlu_gridexit3d) after the last one;
\* the grid is destroyed at most once, and a rank that reaches MPI_Finalize,
\* active or inactive, has constructed the grid once and destroyed it exactly
\* once, before MPI_Finalize.
C12_GridBrackets ==
    \A r \in World :
       LET tr == trace[r]
           built == Pos(tr, GridCall)
           destroyed == Pos(tr, "superlu_gridexit3d")
           finalized == Pos(tr, "MPI_Finalize")
       IN  /\ \A n \in DOMAIN tr :
                 tr[n] \in GridUses =>
                    /\ built # 0 /\ built < n
                    /\ destroyed # 0 => n < destroyed
           /\ Count(tr, "superlu_gridexit3d") <= 1
           /\ destroyed # 0 => built # 0
           /\ finalized # 0 =>
                 /\ Count(tr, GridCall) = 1
                 /\ Count(tr, "superlu_gridexit3d") = 1
                 /\ built < destroyed
                 /\ destroyed < finalized
C12_Witness ==
    \E r, q \in World :
       /\ pc[r] = "done" /\ pc[q] = "done"
       /\ grid[r].iam = -1 /\ Active(q) /\ grid[q].zscp = 1

\* The collectives of the pipeline, from grid construction to deallocation.
GroupCollectives ==
    {"superlu_gridmap3d", "superlu_gridinit3d", "dcreate_matrix_postfix3d",
     "pdgssvx3d", "pdinf_norm_error", "PStatPrint"}
SameGroup(r) == {q \in World : color[q] = color[r]}

\* C13: in batch mode, every collective a rank returns from between the split
\* and the end of its deallocation is on a communicator made of ranks of its
\* own group only, itself among them; the two timing reductions, which span
\* the universe, are the only collectives after the split that cross the
\* groups, and a rank enters them after all its group collectives.
C13_GroupsIsolated ==
    InBatch(batch) =>
       \A r \in World :
          LET mine == SameGroup(r)
              reduced == Pos(trace[r], "MPI_Allreduce_MIN")
          IN  /\ \A c \in joined[r] :
                    /\ c[1] \in GroupCollectives \cup
                                 {"MPI_Comm_split", "MPI_Allreduce_MIN", "MPI_Allreduce_MAX"}
                    /\ c[1] \in GroupCollectives => (r \in c[2] /\ c[2] \subseteq mine)
                    /\ c[1] \notin GroupCollectives => c[2] = World
              /\ reduced # 0 =>
                    \A n \in reduced .. Len(trace[r]) : trace[r][n] \notin GroupCollectives
C13_Witness ==
    /\ InBatch(batch) /\ NP = 4 /\ G = 2
    /\ \A r \in World : pc[r] = "done" /\ Cardinality(joined[r]) >= 7
    /\ color[1] # color[2]

\* The call rank r made last: the collective it is in, when it is in one.
WaitsIn(r) == trace[r][Len(trace[r])]
InPipeline(r) == pc[r] \in {"in_grid", "in_create", "in_solve", "in_check", "in_stat"}

\* C14 as stated: in batch mode a rank whose group has finished its pipeline
\* goes on to grid destruction and the end of the program without waiting for
\* a rank of another group: it can always take its next step.
C14_NeverWaitsForOtherGroup ==
    InBatch(batch) =>
       \A r \in World :
          (PastOut(r) /\ pc[r] # "done" /\ \A q \in SameGroup(r) : PastOut(q)) =>
             ENABLED Step(r)

\* C14, amended: in batch mode a rank that cannot proceed inside its pipeline
\* waits for a rank of its own group, one that has not yet entered the
\* collective it is in; a rank that has finished its pipeline waits, in each
\* of the two timing reductions, until every rank of the universe has entered
\* that reduction, and for nothing else; after the second reduction it
\* reaches grid destruction and the end of the program without waiting.
C14_WaitsOnlyAtReduction ==
    InBatch(batch) =>
       \A r \in World :
          /\ InPipeline(r) =>
                \/ \E q \in SameGroup(r) \ {r} :
                      WaitsIn(r) \notin Ops(q) /\ ~PastOut(q)
                \/ ENABLED Step(r)
          /\ pc[r] \in {"in_amin", "in_amax"} =>
                \/ \E q \in World \ {r} : WaitsIn(r) \notin Ops(q)
                \/ ENABLED Step(r)
          /\ pc[r] = "at_exit" => ENABLED Step(r)
C14_Witness ==
    /\ InBatch(batch)
    /\ \E r, q \in World :
          /\ color[r] = 0 /\ pc[r] = "in_solve" /\ ~ENABLED Step(r)
          /\ color[q] = 1 /\ pc[q] = "in_amin" /\ ~ENABLED Step(q)
          /\ \A p \in SameGroup(q) : pc[p] = "in_amin"

\* The process grids built so far, each as the set of its ranks.
Grids == {grid[r].comm : r \in {q \in World : Active(q)}}
\* No rank is still at or before the grid construction.
AllBuilt == \A r \in World : pc[r] \notin {"start", "in_split", "in_grid"}

\* C15 as stated: launched with the batch argument g, the run builds exactly
\* g process grids.
C15_CountIsGroups ==
    (batch # 0 /\ \A r \in World : pc[r] = "done") => Cardinality(Grids) = batch

\* C15, amended: a nonzero batch argument selects the batch mode, whatever
\* its value; with valid grid dimensions the number of process grids is the
\* universe size divided by nprow*npcol*npdep (rounded down), each grid has
\* nprow*npcol*npdep ranks, and each of its ranks runs pdgssvx3d once.
C15_GroupsFromUniverse ==
    (batch # 0 /\ ValidGrid(nprow, npcol, npdep, G)) =>
       /\ LET built == Grids
          IN  /\ Cardinality(built) <= NP \div G
              /\ AllBuilt => Cardinality(built) = NP \div G
              /\ \A g \in built : Cardinality(g) = G
       /\ \A r \in World :
             /\ Count(trace[r], "pdgssvx3d") <= 1
             /\ (Active(r) /\ PastOut(r)) => Count(trace[r], "pdgssvx3d") = 1
C15_Witness ==
    /\ batch = 1 /\ NP = 4 /\ G = 2 /\ Cardinality(Grids) = 2
    /\ \A r \in World : pc[r] = "done"

\* Each acquisition of main() with its release.
Resources ==
    {<<"fopen", "fclose">>,
     <<"SUPERLU_MALLOC_usermap", "SUPERLU_FREE_usermap">>,
     <<"doubleMalloc_dist", "SUPERLU_FREE_berr">>,
     <<"dcreate_matrix_postfix3d", "Destroy_CompRowLoc_Matrix_dist">>,
     <<"dcreate_matrix_postfix3d", "SUPERLU_FREE_b">>,
     <<"dcreate_matrix_postfix3d", "SUPERLU_FREE_xtrue">>,
     <<"dScalePermstructInit", "dScalePermstructFree">>,
     <<"dLUstructInit", "dLUstructFree">>,
     <<"PStatInit", "PStatFree">>}
\* In the calls tr no resource is released that was not acquired, released
\* twice, or used after its release; ended says that the program is over, and
\* then every resource acquired has been released.
Balanced(tr, ended) ==
    /\ \A p \in Resources :
          /\ Count(tr, p[1]) <= 1 /\ Count(tr, p[2]) <= Count(tr, p[1])
          /\ Count(tr, p[2]) = 1 => Pos(tr, p[1]) < Pos(tr, p[2])
          /\ ended => Count(tr, p[2]) = Count(tr, p[1])
    /\ \A n \in DOMAIN tr :
          /\ (tr[n] \in {"dDestroy_LU", "dDeAllocLlu_3d", "dDeAllocGlu_3d"}
                /\ Count(tr, "dLUstructFree") = 1) => n < Pos(tr, "dLUstructFree")
          /\ (tr[n] \in {"PStatPrint", "MPI_Allreduce_MIN"}
                /\ Count(tr, "PStatFree") = 1) => n < Pos(tr, "PStatFree")

\* C16: on every rank and for each outcome (active with status 0, active with
\* a nonzero status, inactive) every resource the driver acquired (rank map,
\* berr, A, b, xtrue, ScalePermstruct, LUstruct, the statistics, the input
\* file) is released exactly once before MPI_Finalize, none is released
\* without having been acquired, and none is used after its release.
C16_AcquireReleaseBalanced ==
    \A r \in World : Balanced(trace[r], "MPI_Finalize" \in Ops(r))

\* The calls that read the statistics record: PStatPrint, the reads of
\* stat.utime that feed the first reduction, PStatFree.
StatReaders == {"PStatPrint", "MPI_Allreduce_MIN", "PStatFree"}

\* C17: a rank that reads the statistics record (PStatPrint, the reads of
\* stat.utime[FACT] and stat.utime[SOLVE] before the batch reductions,
\* PStatFree) has called PStatInit before; the values a rank brings to the
\* batch reductions are times of an initialised record.
C17_StatInitialisedBeforeRead ==
    \A r \in World :
       /\ LET initialised == Pos(trace[r], "PStatInit")
          IN  \A n \in DOMAIN trace[r] :
                 trace[r][n] \in StatReaders => (initialised # 0 /\ initialised < n)
       /\ "MPI_Allreduce_MIN" \in Ops(r) => (iam[r] # -1 /\ utime[r][1] # Uninit)
C17_Witness ==
    /\ InBatch(batch)
    /\ \E r, q \in World :
          /\ pc[r] = "done" /\ pc[q] = "done"
          /\ "PStatPrint" \in Ops(r) /\ "PStatPrint" \notin Ops(q)
          /\ "PStatFree" \in Ops(q)

\* The reductions rank r has entered, in order.
Reductions(r) ==
    SelectSeq(trace[r], LAMBDA x : x \in {"MPI_Allreduce_MIN", "MPI_Allreduce_MAX"})
\* The arguments describe grids the run can build: the dimensions are valid
\* for the communicator the grid is built on, and in batch mode every group
\* of the split is a full one.
ValidRun ==
    IF batch # 0
    THEN ValidGrid(nprow, npcol, npdep, G) /\ NP % G = 0
    ELSE ValidGrid(nprow, npcol, npdep, NP)
AllEnded == \A r \in World : pc[r] = "done"
ReductionsAligned ==
    \A r \in World :
       /\ Reductions(r) \in {<<>>, <<"MPI_Allreduce_MIN">>,
                              <<"MPI_Allreduce_MIN", "MPI_Allreduce_MAX">>}
       /\ pc[r] = "done" =>
             Reductions(r) = IF batch # 0
                             THEN <<"MPI_Allreduce_MIN", "MPI_Allreduce_MAX">>
                             ELSE <<>>

====
